---- MODULE Spec2Model ----
(***************************************************************************)
(* Model of the transferSkinCluster command (transferSkinCluster.py):      *)
(* doIt dispatches to writeWeights (export of a skinCluster's weights to a *)
(* text file) or to readWeights (import: a new skinCluster is created and  *)
(* the records of the file are replayed as ranged setAttr commands).       *)
(*                                                                         *)
(* Text.  A line of text is the sequence of its tokens.  A "[" that        *)
(* follows a value (a number, a string literal, a "]") opens a subscript   *)
(* of that value, any other "[" opens a list; ", " separates the elements  *)
(* of a list (a token that follows a value inside a list starts the next   *)
(* element), nothing stands after a "[" or before a "]", a single space    *)
(* separates the tokens everywhere else.  The empty line is <<>>.  A       *)
(* file's text is the sequence of its lines, so that "\n".join(lines)      *)
(* followed by split("\n") gives the same sequence; the text of an empty   *)
(* (truncated) file is << <<>> >>, as "".split("\n") is [""].  Numbers are *)
(* written and parsed through IntStr/FloatStr and their inverses.  A       *)
(* weight is an integer number of sixtieths (60 is 1.0).                   *)
(***************************************************************************)
EXTENDS Integers, Sequences, FiniteSets, TLC

\* Number of vertices of the exported mesh, and the number of vertex indices
\* the record lines of a hand-written file may name.
MaxVerts == 2

\* Longest record stream of a hand-written weight file.
MaxRecs == 4

VARIABLES
    pc,          \* position of the command: "idle", "write", "read", "r_select", ...
    todo,        \* the invocations still to be issued in this session
    args,        \* flags of the invocation being run (argData)
    src,         \* the scene at export time: selection and the selected skinCluster
    env,         \* the environment: file-system and scene conditions of the session
    fileExists,  \* the weight file exists
    fileText,    \* its text (sequence of lines)
    exDir,       \* exclusive export: the export directory exists
    exFiles,     \* <<influence, text>> of each .bsw file of the export directory
    selection,   \* the active selection list of the scene of the import
    dest,        \* the skinCluster created by the import
    calls,       \* mutating collaborator calls of the current import, in order
    cmdLog,      \* the weight-set commands executed by the current import, in order
    shown,       \* messages displayed by the current invocation, in order
    result,      \* outcome of the current invocation
    history,     \* finished invocations: [args, result]
    before,      \* the weight file and the exported scene when doIt was called
    weightLines, \* readWeights: the lines of the file
    objects,     \* readWeights: the names selected for the binding
    normalization, \* readWeights: the stored normalization value
    i,           \* readWeights: loop index (0-based line number)
    weightString, inflStart, inflEnd, setCount, writeData  \* readWeights: accumulator

vars == <<pc, todo, args, src, env, fileExists, fileText, exDir, exFiles,
          selection, dest, calls, cmdLog, shown, result, history, before,
          weightLines, objects, normalization, i, weightString, inflStart, inflEnd, setCount,
          writeData>>

----------------------------------------------------------------------------
\* Text of numbers

Digits == <<"0", "1", "2", "3", "4", "5", "6", "7", "8", "9">>

\* str(n) of a Python int.
RECURSIVE IntStr(_)
IntStr(n) ==
    IF n < 0 THEN "-" \o IntStr(-n)
    ELSE IF n < 10 THEN Digits[n + 1]
    ELSE IntStr(n \div 10) \o Digits[(n % 10) + 1]

\* The integers whose text the model parses.
IntRange == -1 .. 12

IsIntText(s) == \E n \in IntRange : IntStr(n) = s

ParseInt(s) == CHOOSE n \in IntRange : IntStr(n) = s

\* repr of a Python float, for the weights of the model (sixtieths).
FloatTexts ==
    << <<-30, "-0.5">>, <<0, "0.0">>, <<10, "0.16666666666666666">>,
       <<12, "0.2">>, <<15, "0.25">>, <<20, "0.3333333333333333">>,
       <<24, "0.4">>, <<30, "0.5">>, <<40, "0.6666666666666666">>,
       <<60, "1.0">>, <<240, "4.0">> >>

\* repr(w + 1) of the floats of FloatTexts.
FloatPlusOneTexts ==
    << <<-30, "0.5">>, <<0, "1.0">>, <<10, "1.1666666666666667">>,
       <<12, "1.2">>, <<15, "1.25">>, <<20, "1.3333333333333333">>,
       <<24, "1.4">>, <<30, "1.5">>, <<40, "1.6666666666666665">>,
       <<60, "2.0">>, <<240, "5.0">> >>

FloatStr(w) ==
    LET k == CHOOSE k \in 1 .. Len(FloatTexts) : FloatTexts[k][1] = w
    IN  FloatTexts[k][2]

IsFloatText(s) == \E k \in 1 .. Len(FloatTexts) : FloatTexts[k][2] = s

ParseFloat(s) ==
    LET k == CHOOSE k \in 1 .. Len(FloatTexts) : FloatTexts[k][2] = s
    IN  FloatTexts[k][1]

\* The names of the scene.
Names == {"J1", "J2", "J3", "J4", "Mesh", "skinA"}

\* repr of a Python str.
Quote(name) == "'" \o name \o "'"

IsQuoted(s) == \E n \in Names : Quote(n) = s

Unquote(s) == CHOOSE n \in Names : Quote(n) = s

----------------------------------------------------------------------------
\* Values of a parsed record line.  A value is [t, n, s]: an int or a float
\* (n) or a str (s).

IntVal(n) == [t |-> "int", n |-> n, s |-> ""]
FloatVal(w) == [t |-> "float", n |-> w, s |-> ""]
StrVal(s) == [t |-> "str", n |-> 0, s |-> s]

\* A list value: items are its elements.
ListVal(vals) == [t |-> "list", n |-> 0, s |-> "", items |-> vals]

\* The float a subtraction gives when a float takes part: terms are the
\* operands in sixtieths, and the value is the double that subtracting them
\* from left to right in double arithmetic gives (0.4 - 0.5 is
\* -0.09999999999999998, no multiple of a sixtieth).
FloatDifference(terms) == [t |-> "float", n |-> terms, s |-> ""]

IsNumber(v) == v.t \in {"int", "float"}

\* str(value) and repr(value); str(list) is the bracketed reprs of the
\* elements, ", " between them.
RECURSIVE ValStr(_)
RECURSIVE ReprsFrom(_, _)
ValRepr(v) == IF v.t = "str" THEN Quote(v.s) ELSE ValStr(v)

ReprsFrom(vals, k) ==
    IF k > Len(vals) THEN ""
    ELSE (IF k > 1 THEN ", " ELSE "") \o ValRepr(vals[k]) \o ReprsFrom(vals, k + 1)

ValStr(v) ==
    IF v.t = "int" THEN IntStr(v.n)
    ELSE IF v.t = "float" THEN FloatStr(v.n)
    ELSE IF v.t = "str" THEN v.s
    ELSE "[" \o ReprsFrom(v.items, 1) \o "]"

\* The tokens of the line str(list) writes.
ListStr(list) == <<"[">> \o [k \in 1 .. Len(list) |-> ValRepr(list[k])] \o <<"]">>

IsValText(s) == IsIntText(s) \/ IsFloatText(s) \/ IsQuoted(s)

ParseVal(s) ==
    IF IsIntText(s) THEN IntVal(ParseInt(s))
    ELSE IF IsFloatText(s) THEN FloatVal(ParseFloat(s))
    ELSE StrVal(Unquote(s))

\* The characters of a name.
NameChars(name) ==
    CASE name = "J1" -> <<"J", "1">>
      [] name = "J2" -> <<"J", "2">>
      [] name = "J3" -> <<"J", "3">>
      [] name = "J4" -> <<"J", "4">>
      [] name = "Mesh" -> <<"M", "e", "s", "h">>
      [] name = "skinA" -> <<"s", "k", "i", "n", "A">>

\* Adjacent string literals: the concatenated text and its characters.
RECURSIVE JoinNames(_)
JoinNames(toks) ==
    IF toks = <<>> THEN "" ELSE Unquote(Head(toks)) \o JoinNames(Tail(toks))

RECURSIVE JoinChars(_)
JoinChars(toks) ==
    IF toks = <<>> THEN <<>> ELSE NameChars(Unquote(Head(toks))) \o JoinChars(Tail(toks))

\* A number token.
IsNumText(s) == IsIntText(s) \/ IsFloatText(s)

\* A number token with a minus sign: after a value it is subtracted from it
\* ("0 -1" is 0 - 1).
IsNegText(s) == IsNumText(s) /\ ParseVal(s).n < 0

RECURSIVE SumInts(_)
SumInts(vals) == IF vals = <<>> THEN 0 ELSE Head(vals).n + SumInts(Tail(vals))

\* The value of first - (-vals[2]) - ... : an int, or a float when a float
\* takes part.
Difference(vals) ==
    IF \E k \in 1 .. Len(vals) : vals[k].t = "float"
    THEN FloatDifference([k \in 1 .. Len(vals) |->
                             IF vals[k].t = "int" THEN 60 * vals[k].n ELSE vals[k].n])
    ELSE IntVal(SumInts(vals))

\* The number of leading string literals of a line.
RECURSIVE LeadingQuoted(_)
LeadingQuoted(toks) ==
    IF toks # <<>> /\ IsQuoted(Head(toks)) THEN 1 + LeadingQuoted(Tail(toks)) ELSE 0

\* The number of leading numbers with a minus sign.
RECURSIVE LeadingNeg(_)
LeadingNeg(toks) ==
    IF toks # <<>> /\ IsNegText(Head(toks)) THEN 1 + LeadingNeg(Tail(toks)) ELSE 0

\* An evaluated expression: its value v, the characters of a str, the
\* evaluated elements of a list.
NumNode(v) == [v |-> v, chars |-> <<>>, elems |-> <<>>]
StrNode(text, chars) == [v |-> StrVal(text), chars |-> chars, elems |-> <<>>]
ListNode(elems) ==
    [v |-> ListVal([k \in 1 .. Len(elems) |-> elems[k].v]), chars |-> <<>>, elems |-> elems]

\* An expression that is none or raises.
NoParse == [ok |-> FALSE, node |-> <<>>, next |-> 0]

\* x[index]: an element of a list or a character of a str, the index an int
\* that may count from the end; a TypeError for any other x or index, an
\* IndexError outside the length.
Index(x, index) ==
    LET n == IF x.v.t = "str" THEN Len(x.chars) ELSE Len(x.elems)
        at == IF index.v.n < 0 THEN index.v.n + n ELSE index.v.n
    IN  IF index.v.t # "int" \/ x.v.t \notin {"str", "list"}
        THEN [ok |-> FALSE, node |-> <<>>]
        ELSE IF at < 0 \/ at >= n
        THEN [ok |-> FALSE, node |-> <<>>]
        ELSE IF x.v.t = "str"
        THEN [ok |-> TRUE, node |-> StrNode(x.chars[at + 1], <<x.chars[at + 1]>>)]
        ELSE [ok |-> TRUE, node |-> x.elems[at + 1]]

\* The expression that starts at token p: [ok, node, next], next the
\* position after it.  Parse(what, toks, p, c) reads
\*   "atom": a number, string literals (adjacent literals are one str; in a
\*     list, c TRUE, each is an element), or a list;
\*   "elements": the elements of a list up to its "]", after the elements c;
\*   "subscripts": the subscripts "[" expression "]" that follow the value c;
\*   "operand": an atom with its subscripts (c: in a list);
\*   "expr": an operand and the numbers subtracted from it.
RECURSIVE Parse(_, _, _, _)
Parse(what, toks, p, c) ==
    CASE what = "atom" ->
            IF p > Len(toks) THEN NoParse
            ELSE IF IsNumText(toks[p])
            THEN [ok |-> TRUE, node |-> NumNode(ParseVal(toks[p])), next |-> p + 1]
            ELSE IF IsQuoted(toks[p])
            THEN LET q == IF c THEN 1 ELSE LeadingQuoted(SubSeq(toks, p, Len(toks)))
                     lits == SubSeq(toks, p, p + q - 1)
                 IN  [ok |-> TRUE, node |-> StrNode(JoinNames(lits), JoinChars(lits)),
                      next |-> p + q]
            ELSE IF toks[p] = "["
            THEN LET es == Parse("elements", toks, p + 1, <<>>)
                 IN  IF es.ok
                     THEN [ok |-> TRUE, node |-> ListNode(es.node), next |-> es.next]
                     ELSE NoParse
            ELSE NoParse
      [] what = "elements" ->
            IF p > Len(toks) THEN NoParse
            ELSE IF toks[p] = "]" THEN [ok |-> TRUE, node |-> c, next |-> p + 1]
            ELSE LET e == Parse("operand", toks, p, TRUE)
                 IN  IF e.ok THEN Parse("elements", toks, e.next, Append(c, e.node))
                     ELSE NoParse
      [] what = "subscripts" ->
            IF p > Len(toks) \/ toks[p] # "[" THEN [ok |-> TRUE, node |-> c, next |-> p]
            ELSE LET index == Parse("expr", toks, p + 1, FALSE)
                 IN  IF ~index.ok \/ index.next > Len(toks) \/ toks[index.next] # "]"
                     THEN NoParse
                     ELSE LET at == Index(c, index.node)
                          IN  IF at.ok
                              THEN Parse("subscripts", toks, index.next + 1, at.node)
                              ELSE NoParse
      [] what = "operand" ->
            LET a == Parse("atom", toks, p, c)
            IN  IF a.ok THEN Parse("subscripts", toks, a.next, a.node) ELSE NoParse
      [] what = "expr" ->
            LET o == Parse("operand", toks, p, FALSE)
            IN  IF ~o.ok THEN NoParse
                ELSE LET m == LeadingNeg(SubSeq(toks, o.next, Len(toks)))
                     IN  IF m = 0 THEN o
                         ELSE IF ~IsNumber(o.node.v) THEN NoParse
                         ELSE [ok |-> TRUE,
                               node |-> NumNode(Difference(
                                   <<o.node.v>>
                                   \o [k \in 1 .. m |-> ParseVal(toks[o.next + k - 1])])),
                               next |-> o.next + m]

ParseExpr(toks, p) == Parse("expr", toks, p, FALSE)

\* eval(line): ok with the value, or an exception.  The value is a list
\* (val: its elements), a str (val: the str) or a number (val: the number);
\* items are the values x[0], x[1], ... that indexing the value gives: the
\* elements of a list, the characters of a str, none for a number.
Eval(line) ==
    IF /\ Len(line) >= 2
       /\ line[1] = "["
       /\ line[Len(line)] = "]"
       /\ \A k \in 2 .. Len(line) - 1 : IsValText(line[k])
    THEN \* the line str(list) writes: every token between the brackets is
         \* an element
         LET list == [k \in 1 .. Len(line) - 2 |-> ParseVal(line[k + 1])]
         IN  [ok |-> TRUE, kind |-> "list", val |-> list, items |-> list]
    ELSE
    LET e == ParseExpr(line, 1)
    IN  IF ~e.ok \/ e.next # Len(line) + 1
        THEN [ok |-> FALSE, kind |-> "none", val |-> <<>>, items |-> <<>>]
        ELSE IF e.node.v.t = "list"
        THEN [ok |-> TRUE, kind |-> "list", val |-> e.node.v.items, items |-> e.node.v.items]
        ELSE IF e.node.v.t = "str"
        THEN [ok |-> TRUE, kind |-> "str", val |-> e.node.v,
              items |-> [k \in 1 .. Len(e.node.chars) |-> StrVal(e.node.chars[k])]]
        ELSE [ok |-> TRUE, kind |-> "num", val |-> e.node.v, items |-> <<>>]

----------------------------------------------------------------------------
\* Lines and files

EmptyLine == <<>>

\* text.split(" ")
SplitSpace(line) == IF line = EmptyLine THEN <<"">> ELSE line

\* The text of a file that was opened for writing and never written.
EmptyText == <<EmptyLine>>

RECURSIVE SumSeq(_)
SumSeq(s) == IF s = <<>> THEN 0 ELSE Head(s) + SumSeq(Tail(s))

RECURSIVE Flatten(_)
Flatten(ss) == IF ss = <<>> THEN <<>> ELSE Head(ss) \o Flatten(Tail(ss))

\* The indices 0 .. n-1 in ascending order: range(0, n)
Range(n) == [k \in 1 .. n |-> k - 1]

----------------------------------------------------------------------------
\* writeWeights

\* cmds.skinCluster(edit, forceNormalizeWeights): the weights of every vertex
\* are scaled to the sum 1 (60 sixtieths).
NormalizeRow(row) ==
    LET sum == SumSeq(row)
    IN  IF sum > 0 /\ sum # 60
        THEN [k \in 1 .. Len(row) |-> (row[k] * 60) \div sum]
        ELSE row

ForceNormalize(wl) == [v \in 1 .. Len(wl) |-> NormalizeRow(wl[v])]

\* HeaderLines with the shape written in front of the influences.
HeaderLinesShapeFirst(s) ==
    << <<s.shape>> \o s.infls,
       <<s.name>>,
       <<"-nw", IntStr(s.nw), "-mi", IntStr(s.mi), "-dr", FloatStr(s.dr)>> >>

\* First three lines of the file: the influences and the shape, the name of
\* the skinCluster, its attributes.
HeaderLines(s) ==
    << s.infls \o <<s.shape>>,
       <<s.name>>,
       <<"-nw", IntStr(s.nw), "-mi", IntStr(s.mi), "-dr", FloatStr(s.dr)>> >>

\* Emitted with the test "value[j] >= 0".
EmittedNonNegative(value, n) ==
    LET NonNegative(j) == value[j + 1] >= 0
    IN  SelectSeq(Range(n), NonNegative)

\* The influence indices of one vertex that get a record line.
Emitted(value, n) ==
    LET Positive(j) == value[j + 1] > 0
    IN  SelectSeq(Range(n), Positive)

\* VertexRecordLines writing the influence index counted from 1.
VertexRecordLinesOneBased(v, infls, value) ==
    LET js == Emitted(value, Len(infls))
    IN  [k \in 1 .. Len(js) |->
            ListStr(<<IntVal(v), StrVal(infls[js[k] + 1]), IntVal(js[k] + 1),
                      FloatVal(value[js[k] + 1])>>)]

\* The record lines of vertex index v, whose weights are value.
VertexRecordLines(v, infls, value) ==
    LET js == Emitted(value, Len(infls))
    IN  [k \in 1 .. Len(js) |->
            ListStr(<<IntVal(v), StrVal(infls[js[k] + 1]), IntVal(js[k]),
                      FloatVal(value[js[k] + 1])>>)]

\* The record lines of all vertices, in the order of the geometry iterator.
RecordLines(s) ==
    Flatten([k \in 1 .. Len(s.wl) |-> VertexRecordLines(k - 1, s.infls, s.wl[k])])

\* The lines of a default export.
ExportLines(s) == HeaderLines(s) \o RecordLines(s) \o <<EmptyLine>>

\* The lines of the file of influence index j of an exclusive export.
ExclusiveLines(wl, j) ==
    [k \in 1 .. Len(wl) |-> <<IntStr(k - 1), FloatStr(wl[k][j + 1])>>] \o <<EmptyLine>>

\* The files of the export directory after open(.., "w") and write of the
\* files written: a file of the same name is replaced, the others stay.
Overwrite(xf, written) ==
    LET Stays(f) == \A k \in 1 .. Len(written) : written[k][1] # f[1]
    IN  SelectSeq(xf, Stays) \o written

\* The outcome of writeWeights(fileName, exclusive) on scene s in environment
\* e, the weight file being fe/ft and the export directory xd/xf.
WriteOutcome(s, e, exclusive, fe, ft, xd, xf) ==
    LET same == [src |-> s, fileExists |-> fe, fileText |-> ft,
                 exDir |-> xd, exFiles |-> xf]
        Fail(msg, st) == [result |-> "-1", shown |-> <<msg>>] @@ st
        sel == [s EXCEPT !.sel = "shape"]
    IN  IF s.sel = "none"
        THEN Fail("error: Select a skinCluster node to export.", same)
        ELSE IF s.sel # "skin"
        THEN Fail("error: Selected node is not a skinCluster.", same)
        ELSE IF Len(s.infls) = 0
        THEN Fail("error: No influence objects found for skinCluster.", same)
        ELSE IF s.shape = ""
        THEN Fail("error: No connected shape nodes found.", same)
        ELSE IF exclusive = 0
        THEN \* default export to a single file; open(fileName, "w") also
             \* fails when fileName is the directory of an exclusive export
             IF e.openFails \/ xd
             THEN Fail("error: A file error has occurred for file", 
                       [same EXCEPT !.src = sel])
             ELSE IF s.fault = "attr" \/ (s.fault = "weights" /\ Len(s.wl) > 0)
             THEN Fail("error: A file error has occurred for file",
                       [same EXCEPT !.src = sel, !.fileExists = TRUE,
                                    !.fileText = EmptyText])
             ELSE [result |-> "1", shown |-> <<>>]
                  @@ [same EXCEPT !.src = sel, !.fileExists = TRUE,
                                  !.fileText = ExportLines(s)]
        ELSE \* one file per influence
             LET norm == [sel EXCEPT !.wl = ForceNormalize(s.wl)]
             IN  IF ~xd /\ (e.mkdirFails \/ fe)
                 THEN Fail("error: Unable to create export directory",
                           [same EXCEPT !.src = norm])
                 ELSE IF e.openFails
                 THEN Fail("error: A file error has occurred for file",
                           [same EXCEPT !.src = norm, !.exDir = TRUE])
                 ELSE IF s.fault = "weights" /\ Len(s.wl) > 0
                 THEN Fail("error: A file error has occurred for file",
                           [same EXCEPT !.src = norm, !.exDir = TRUE,
                                        !.exFiles =
                                            Overwrite(xf, <<<<s.infls[1], EmptyText>>>>)])
                 ELSE [result |-> "1", shown |-> <<>>]
                      @@ [same EXCEPT !.src = norm, !.exDir = TRUE,
                             !.exFiles = Overwrite(xf, [k \in 1 .. Len(s.infls) |->
                                 <<s.infls[k], ExclusiveLines(norm.wl, k - 1)>>])]

----------------------------------------------------------------------------
\* readWeights: helpers

\* objects[::-1]; objects.pop(0); objects.append(shape)
Reverse(s) == [k \in 1 .. Len(s) |-> s[Len(s) + 1 - k]]

\* ReverseObjects without objects.pop(0).
ReverseObjectsNoPop(items, shape) == Reverse(items) \o <<shape>>

ReverseObjects(items, shape) == Tail(Reverse(items)) \o <<shape>>

\* The list given to cmds.select.
SelectObjects(line, reverseOrder) ==
    LET items == SplitSpace(line)
        shape == items[Len(items)]
    IN  IF reverseOrder = 1 THEN ReverseObjects(items, shape) ELSE items

\* The names that exist in the scene of the import.
SceneNames(e) == IF e.missingName THEN Names \ {"J1"} ELSE Names

\* The flags of line 3 as newSkinCluster accepts them.
ParamsOk(line) ==
    /\ Len(line) = 6
    /\ line[1] = "-nw" /\ IsIntText(line[2])
    /\ line[3] = "-mi" /\ IsIntText(line[4])
    /\ line[5] = "-dr" /\ IsFloatText(line[6])

NoDest == [exists |-> FALSE, name |-> <<>>, infls |-> <<>>, shape |-> "",
           nw |-> 0, size |-> 0]

\* a == b of two parsed values
RECURSIVE ValEq(_, _)
ValEq(a, b) ==
    IF IsNumber(a) /\ IsNumber(b)
    THEN (IF a.t = "int" THEN 60 * a.n ELSE a.n) = (IF b.t = "int" THEN 60 * b.n ELSE b.n)
    ELSE IF a.t # b.t THEN FALSE
    ELSE IF a.t = "str" THEN a.s = b.s
    ELSE /\ Len(a.items) = Len(b.items)
         /\ \A k \in 1 .. Len(a.items) : ValEq(a.items[k], b.items[k])

\* ZeroFill with the loop "for x in range(inflEnd, index)".
ZeroFillFromEnd(end, index) ==
    IF index > end + 1 THEN [k \in 1 .. index - end |-> "0"] ELSE <<>>

\* The zeros written for the influences dropped between inflEnd and index:
\* for x in range(inflEnd + 1, index)
ZeroFill(end, index) ==
    IF index > end + 1 THEN [k \in 1 .. index - end - 1 |-> "0"] ELSE <<>>

\* A parsed value as a number, in sixtieths.
Num(v) == IF v.t = "int" THEN 60 * v.n ELSE v.n

\* str(maxIndex + 1)
PlusOneStr(v) ==
    IF v.t = "int"
    THEN IntStr(v.n + 1)
    ELSE LET k == CHOOSE k \in 1 .. Len(FloatPlusOneTexts) : FloatPlusOneTexts[k][1] = v.n
         IN  FloatPlusOneTexts[k][2]

\* The accumulator of readWeights before the first record and after a flush.
EmptyAcc ==
    [inflStart |-> IntVal(-1), inflEnd |-> IntVal(-1), weightString |-> <<>>,
     setCount |-> 0]

\* Accumulate without the count of the zeros it fills in.
AccumulateZerosUncounted(acc, index, weight) ==
    IF ValEq(acc.inflStart, IntVal(-1))
    THEN [ok |-> TRUE, inflStart |-> index, inflEnd |-> index,
          weightString |-> acc.weightString \o <<weight>>,
          setCount |-> acc.setCount + 1]
    ELSE IF ~IsNumber(index)
    THEN [ok |-> FALSE] @@ acc
    ELSE IF IsNumber(acc.inflEnd) /\ Num(acc.inflEnd) = Num(index) - 60
    THEN [ok |-> TRUE, inflStart |-> acc.inflStart, inflEnd |-> index,
          weightString |-> acc.weightString \o <<weight>>,
          setCount |-> acc.setCount + 1]
    ELSE IF acc.inflEnd.t = "int" /\ index.t = "int"
    THEN [ok |-> TRUE, inflStart |-> acc.inflStart, inflEnd |-> index,
          weightString |-> acc.weightString \o ZeroFill(acc.inflEnd.n, index.n)
                               \o <<weight>>,
          setCount |-> acc.setCount + 1]
    ELSE [ok |-> FALSE] @@ acc

\* The accumulator after the record (index, weight) was added (lines 351-369);
\* index is weights[2] as eval gave it, weight is str(weights[3]).  Not ok: a
\* TypeError, of "weights[2]-1" for a str or a list, of "inflEnd + 1" for a
\* str or a list, of range() for a float.
Accumulate(acc, index, weight) ==
    IF ValEq(acc.inflStart, IntVal(-1))
    THEN [ok |-> TRUE, inflStart |-> index, inflEnd |-> index,
          weightString |-> acc.weightString \o <<weight>>,
          setCount |-> acc.setCount + 1]
    ELSE IF ~IsNumber(index)
    THEN [ok |-> FALSE] @@ acc
    ELSE IF IsNumber(acc.inflEnd) /\ Num(acc.inflEnd) = Num(index) - 60
    THEN [ok |-> TRUE, inflStart |-> acc.inflStart, inflEnd |-> index,
          weightString |-> acc.weightString \o <<weight>>,
          setCount |-> acc.setCount + 1]
    ELSE IF acc.inflEnd.t = "int" /\ index.t = "int"
    THEN [ok |-> TRUE, inflStart |-> acc.inflStart, inflEnd |-> index,
          weightString |-> acc.weightString \o ZeroFill(acc.inflEnd.n, index.n)
                               \o <<weight>>,
          setCount |-> acc.setCount + Len(ZeroFill(acc.inflEnd.n, index.n)) + 1]
    ELSE [ok |-> FALSE] @@ acc

\* The setAttr command of a flush (lines 376-385).
SetAttrCommand(acc, compIndex) ==
    [s |-> IntStr(acc.setCount),
     comp |-> ValStr(compIndex),
     start |-> ValStr(acc.inflStart),
     range |-> IF ValEq(acc.inflEnd, acc.inflStart) THEN <<>> ELSE <<ValStr(acc.inflEnd)>>,
     values |-> acc.weightString]

\* One pass of the loop body on the evaluated line cur, next being the
\* evaluated line after it (cur itself at the last record): not ok when a
\* subscript or the arithmetic raises, else the accumulator with the record
\* added and whether the component differs from the next one (lines 344-373).
RecordStep(cur, next, acc) ==
    IF \/ ~cur.ok \/ ~next.ok
       \/ Len(cur.items) < 4
       \/ Len(next.items) = 0
    THEN [ok |-> FALSE]
    ELSE LET a == Accumulate(acc, cur.items[3], ValStr(cur.items[4]))
         IN  IF ~a.ok
             THEN [ok |-> FALSE]
             ELSE [ok |-> TRUE,
                   acc |-> [inflStart |-> a.inflStart, inflEnd |-> a.inflEnd,
                            weightString |-> a.weightString, setCount |-> a.setCount],
                   compIndex |-> cur.items[1],
                   differs |-> ~ValEq(cur.items[1], next.items[1])]

\* The number a MEL command reads from a text.
ParseNumber(s) == IF IsIntText(s) THEN 60 * ParseInt(s) ELSE ParseFloat(s)

\* setAttr -s n ".weightList[comp].weights[start:end]" values: the command
\* sets the weight of influence start + k to the k-th value.
Covers(cmd, v, j) ==
    LET start == ParseInt(cmd.start)
        end == IF cmd.range = <<>> THEN start ELSE ParseInt(cmd.range[1])
    IN  /\ cmd.comp = IntStr(v)
        /\ start <= j /\ j <= end
        /\ j - start + 1 <= Len(cmd.values)

\* The weight of (v, j) on a destination pruned to zero after the commands.
RECURSIVE Replay(_, _, _)
Replay(cmds, v, j) ==
    IF cmds = <<>> THEN 0
    ELSE LET last == cmds[Len(cmds)]
         IN  IF Covers(last, v, j)
             THEN ParseNumber(last.values[j - ParseInt(last.start) + 1])
             ELSE Replay(SubSeq(cmds, 1, Len(cmds) - 1), v, j)

DestWeight(v, j) == Replay(cmdLog, v, j)

----------------------------------------------------------------------------
\* Sessions: the scenes, files and invocations the model starts from

FileName == "w.txt"

ExportArgs(ex) == [h |-> FALSE, m |-> <<>>, ro |-> <<>>, ex |-> ex, f |-> <<FileName>>]

ImportArgs(ro) == [h |-> FALSE, m |-> <<1>>, ro |-> ro, ex |-> <<>>, f |-> <<FileName>>]

InfluenceNames == <<"J1", "J2", "J3", "J4">>

Calm == [openFails |-> FALSE, mkdirFails |-> FALSE, missingName |-> FALSE,
         bound |-> FALSE]

\* A skinCluster "skinA" on "Mesh" with n influences and the weights wl.
Source(n, wl, nw) ==
    [sel |-> "skin", infls |-> SubSeq(InfluenceNames, 1, n), shape |-> "Mesh",
     name |-> "skinA", nw |-> nw, mi |-> 4, dr |-> 240, wl |-> wl, fault |-> "none"]

\* The weight an influence has where it has one: 0.5 for the influences of
\* even index, 1 for the others.
Present(j) == IF j % 2 = 0 THEN 30 ELSE 60

\* The exported weight tables: every table over two influences and the
\* weights -0.5, 0, 0.5, 1, and every table over four influences in which
\* influence j has the weight 0 or Present(j).
Tables ==
    [1 .. MaxVerts -> [1 .. 2 -> {-30, 0, 30, 60}]]
    \cup [1 .. MaxVerts -> {<<a, b, c, d>> : a \in {0, Present(0)}, b \in {0, Present(1)},
                                            c \in {0, Present(2)}, d \in {0, Present(3)}}]

SmallTables == [1 .. MaxVerts -> [1 .. 2 -> {0, 30, 60}]]

Session(t, s, e, fe, ft) ==
    [todo |-> t, src |-> s, env |-> e, fileExists |-> fe, fileText |-> ft]

OldText == ExportLines(Source(2, [v \in 1 .. MaxVerts |-> <<60, 0>>], 1))

\* Record lines of hand-written files: three records, a line that is no
\* Python expression, a list that is too short, a line that is a str, a
\* line that is a number (0 - 1), a line that is a character of a str, a
\* line that is an element of a list, a line that is a list of a list, a
\* record whose vertex index is a list, a record whose influence index is
\* the float 0.0.
JunkLine == <<"junk">>
ShortLine == <<"[", "0", "]">>
StrLine == <<"'Mesh'">>
DifferenceLine == <<"0", "-1">>
SubscriptLine == <<"'J1'", "[", "0", "]">>
SubscriptedList == <<"[", "'J1'", "]", "[", "0", "]">>
NestedList == <<"[", "[", "0", "]", "]">>
ListIndexRecord == <<"[", "[", "0", "]", "'J1'", "0", "0.5", "]">>
FloatIndexRecord == ListStr(<<IntVal(0), StrVal("J1"), FloatVal(0), FloatVal(30)>>)

HandRecord(v, j) ==
    ListStr(<<IntVal(v), StrVal(InfluenceNames[j + 1]), IntVal(j), FloatVal(Present(j))>>)

HandLines ==
    {HandRecord(0, 0), HandRecord(0, 2), HandRecord(1, 0), JunkLine, ShortLine, StrLine,
     FloatIndexRecord}

HandText(stream, nw) ==
    HeaderLines(Source(3, <<>>, nw)) \o stream \o <<EmptyLine>>

\* Files of the imports that vary the flags and the conditions of the scene.
FlagTexts ==
    {HandText(<<HandRecord(0, 0), HandRecord(0, 2), HandRecord(1, 0)>>, nw) : nw \in {0, 1}}
    \cup {EmptyText, <<<<"J1", "Mesh">>, EmptyLine>>}
    \cup {HandText(<<HandRecord(0, 0), last>>, 1) :
              last \in {DifferenceLine, SubscriptLine, SubscriptedList, NestedList,
                        ListIndexRecord}}
    \cup {HandText(<<HandRecord(0, 0), mid, HandRecord(1, 0)>>, 1) :
              mid \in {DifferenceLine, SubscriptedList, NestedList}}

----------------------------------------------------------------------------
\* The command

InitWith(ses) ==
    /\ todo = ses.todo
    /\ src = ses.src
    /\ env = ses.env
    /\ fileExists = ses.fileExists
    /\ fileText = ses.fileText
    /\ before = [fileExists |-> ses.fileExists, fileText |-> ses.fileText,
                 src |-> ses.src]
    /\ pc = "idle"
    /\ args = ExportArgs(<<>>)
    /\ exDir = FALSE
    /\ exFiles = <<>>
    /\ selection = <<>>
    /\ dest = NoDest
    /\ calls = <<>>
    /\ cmdLog = <<>>
    /\ shown = <<>>
    /\ result = "none"
    /\ history = <<>>
    /\ weightLines = <<>>
    /\ objects = <<>>
    /\ normalization = 0
    /\ i = 0
    /\ weightString = <<>>
    /\ inflStart = EmptyAcc.inflStart
    /\ inflEnd = EmptyAcc.inflEnd
    /\ setCount = 0
    /\ writeData = 0

\* Export, then import of the exported file into a scene with an unbound Mesh.
InitRoundTrip ==
    \E wl \in Tables, nw \in {0, 1} :
        /\ nw = 0 => Len(wl[1]) = 2
        /\ InitWith(Session(<<ExportArgs(<<>>), ImportArgs(<<>>)>>,
                            Source(Len(wl[1]), wl, nw), Calm, FALSE, <<>>))

\* Exports that meet a fault, of the scene or of the file system.
InitExport ==
    \/ \E wl \in SmallTables, fault \in {"none", "attr", "weights"}, of \in BOOLEAN,
          mf \in BOOLEAN, old \in BOOLEAN, ex \in {<<>>, <<1>>} :
          InitWith(Session(<<ExportArgs(ex)>>, [Source(2, wl, 1) EXCEPT !.fault = fault],
                           [Calm EXCEPT !.openFails = of, !.mkdirFails = mf],
                           old, IF old THEN OldText ELSE <<>>))
    \/ \E k \in {"none", "other"} :
          InitWith(Session(<<ExportArgs(<<>>)>>,
                           [Source(2, [v \in 1 .. MaxVerts |-> <<60, 0>>], 1) EXCEPT !.sel = k],
                           Calm, FALSE, <<>>))
    \/ InitWith(Session(<<ExportArgs(<<>>)>>, Source(0, [v \in 1 .. MaxVerts |-> <<>>], 1),
                        Calm, FALSE, <<>>))

\* Imports of hand-written files.
InitImport ==
    \E n \in 0 .. MaxRecs :
        \E st \in [1 .. n -> HandLines] :
            InitWith(Session(<<ImportArgs(<<>>)>>, Source(3, <<>>, 1), Calm, TRUE,
                             HandText(st, 1)))

\* Imports under each flag and condition of the scene and the file system.
InitFlagImport ==
    \E ro \in {<<0>>, <<1>>, <<2>>}, of \in BOOLEAN, mn \in BOOLEAN, b \in BOOLEAN,
       fe \in BOOLEAN, ft \in FlagTexts :
        InitWith(Session(<<ImportArgs(ro)>>, Source(3, <<>>, 1),
                         [Calm EXCEPT !.openFails = of, !.missingName = mn, !.bound = b],
                         fe, IF fe THEN ft ELSE <<>>))

\* Invocations doIt answers itself.
InitDispatch ==
    \E a \in [h : BOOLEAN, m : {<<>>, <<0>>, <<1>>, <<-1>>, <<2>>}, ro : {<<>>},
              ex : {<<>>}, f : {<<>>, <<"">>, <<FileName>>}] :
        InitWith(Session(<<a>>, Source(3, <<>>, 1), Calm, FALSE, <<>>))

Init == InitRoundTrip \/ InitExport \/ InitImport \/ InitFlagImport \/ InitDispatch

fsVars == <<fileExists, fileText, exDir, exFiles>>
accVars == <<weightString, inflStart, inflEnd, setCount, writeData>>
sceneVars == <<selection, dest, calls, cmdLog>>
readVars == <<weightLines, objects, normalization, i>>

Flag(a, dflt) == IF a = <<>> THEN dflt ELSE a[1]

\* The invocation ends: its outcome is r and it has displayed msgs.
Return(a, r, msgs) ==
    /\ pc' = "idle"
    /\ result' = r
    /\ shown' = msgs
    /\ history' = Append(history, [args |-> a, result |-> r])

\* An exception leaves readWeights and doIt.
Raise == Return(args, "raised", shown)

\* doIt, up to the call of writeWeights or readWeights (lines 64-104).
DoIt ==
    /\ pc = "idle"
    /\ todo # <<>>
    /\ LET a == Head(todo)
           modeArg == Flag(a.m, 0)
       IN  /\ args' = a
           /\ todo' = Tail(todo)
           /\ before' = [fileExists |-> fileExists, fileText |-> fileText, src |-> src]
           /\ IF a.h
              THEN Return(a, "none", <<"result: helpText">>)
              ELSE IF a.f = <<>>
              THEN Return(a, "none", <<"error: transferSkinCluster needs file name flag.">>)
              ELSE IF a.f[1] = ""
              THEN Return(a, "none", <<"error: transferSkinCluster file name is not specified.">>)
              ELSE IF modeArg < 0 \/ modeArg > 1
              THEN Return(a, "none", <<"error: transferSkinCluster mode needs to be set to either 0 for 'write' or 1 for 'read'.">>)
              ELSE /\ pc' = (IF modeArg = 0 THEN "write" ELSE "read")
                   /\ result' = "none"
                   /\ shown' = <<>>
                   /\ UNCHANGED history
    /\ UNCHANGED <<src, env, fsVars, sceneVars, readVars, accVars>>

\* Finish displaying the messages whatever the operation returned.
FinishInfoAlways ==
    /\ pc = "finish"
    /\ Return(args, result,
              shown \o <<"info: transferSkinCluster command took seconds",
                         IF Flag(args.m, 0) = 0
                         THEN "info: Weights exported to"
                         ELSE "info: Weights imported from">>)
    /\ UNCHANGED <<todo, args, before, src, env, fsVars, sceneVars, readVars, accVars>>

\* doIt, after the operation returned (lines 107-110).
Finish ==
    /\ pc = "finish"
    /\ Return(args, result,
              IF result = "1"
              THEN shown \o <<"info: transferSkinCluster command took seconds",
                              IF Flag(args.m, 0) = 0
                              THEN "info: Weights exported to"
                              ELSE "info: Weights imported from">>
              ELSE shown)
    /\ UNCHANGED <<todo, args, before, src, env, fsVars, sceneVars, readVars, accVars>>

\* writeWeights (lines 117-238).
WriteWeights ==
    /\ pc = "write"
    /\ LET out == WriteOutcome(src, env, Flag(args.ex, 0), fileExists, fileText,
                               exDir, exFiles)
       IN  /\ result' = out.result
           /\ shown' = out.shown
           /\ src' = out.src
           /\ fileExists' = out.fileExists
           /\ fileText' = out.fileText
           /\ exDir' = out.exDir
           /\ exFiles' = out.exFiles
    /\ pc' = "finish"
    /\ UNCHANGED <<todo, args, before, env, history, sceneVars, readVars, accVars>>

----------------------------------------------------------------------------
\* readWeights, step by step

\* Open and read the file, initialise the accumulator (lines 246-262).
ReadOpen ==
    /\ pc = "read"
    /\ IF ~fileExists \/ env.openFails
       THEN /\ pc' = "finish"
            /\ result' = "-1"
            /\ shown' = shown \o <<"error: A file error has occurred for file">>
            /\ UNCHANGED <<weightLines, accVars>>
       ELSE /\ pc' = "r_select"
            /\ weightLines' = fileText
            /\ weightString' = <<>>
            /\ inflStart' = EmptyAcc.inflStart
            /\ inflEnd' = EmptyAcc.inflEnd
            /\ setCount' = 0
            /\ writeData' = 0
            /\ UNCHANGED <<result, shown>>
    /\ UNCHANGED <<todo, args, before, src, env, fsVars, sceneVars, history, objects,
                   normalization, i>>

\* Lines 1 and 2 of the file, the selection of the named objects (lines 267-290).
ReadSelect ==
    /\ pc = "r_select"
    /\ LET objs == SelectObjects(weightLines[1], Flag(args.ro, 0))
       IN  IF Len(weightLines) < 2
           THEN Raise /\ UNCHANGED <<objects, selection>>
           ELSE IF \E k \in 1 .. Len(objs) : objs[k] \notin SceneNames(env)
           THEN /\ pc' = "finish"
                /\ result' = "()"
                /\ objects' = objs
                /\ UNCHANGED <<shown, history, selection>>
           ELSE /\ pc' = "r_bound"
                /\ objects' = objs
                /\ selection' = objs
                /\ UNCHANGED <<result, shown, history>>
    /\ UNCHANGED <<todo, args, before, src, env, fsVars, dest, calls, cmdLog, weightLines,
                   normalization, i, accVars>>

\* AlreadyBound with the test of the node type never met.
AlreadyBoundNever(e) == FALSE

\* cmds.listHistory(shape) holds a node of type skinCluster.
AlreadyBound(e) == e.bound

\* The history of the shape must hold no skinCluster (lines 293-297).
ReadCheckBound ==
    /\ pc = "r_bound"
    /\ IF AlreadyBound(env)
       THEN /\ pc' = "finish"
            /\ result' = "-1"
            /\ shown' = shown \o <<"error: is already connected to a skinCluster.">>
       ELSE /\ pc' = "r_create"
            /\ UNCHANGED <<result, shown>>
    /\ UNCHANGED <<todo, args, before, src, env, fsVars, sceneVars, history, readVars, accVars>>

\* The binding newSkinCluster creates from the selection and line 3.
NewSkinCluster(sel, name) ==
    [exists |-> TRUE, name |-> name, infls |-> SubSeq(sel, 1, Len(sel) - 1),
     shape |-> sel[Len(sel)], nw |-> 0, size |-> 0]

\* Create and rename the skinCluster, store its normalization and switch it
\* off, prune the weights (lines 301-317).
ReadCreate ==
    /\ pc = "r_create"
    /\ IF Len(weightLines) < 3 \/ ~ParamsOk(weightLines[3])
       THEN Raise /\ UNCHANGED <<dest, calls, normalization>>
       ELSE /\ pc' = "r_reserve"
            /\ dest' = NewSkinCluster(selection, weightLines[2])
            /\ normalization' = ParseInt(weightLines[3][2])
            /\ calls' = calls \o << <<"newSkinCluster">> \o selection,
                                    <<"rename">> \o weightLines[2],
                                    <<"setAttr.nw", "0">>,
                                    <<"skinPercent.pruneWeights">> >>
            /\ UNCHANGED <<result, shown, history>>
    /\ UNCHANGED <<todo, args, before, src, env, fsVars, selection, cmdLog, weightLines,
                   objects, i, accVars>>

\* ReadReserve sizing the weight list to maxIndex instead of maxIndex + 1.
ReadReserveNoPlusOne ==
    /\ pc = "r_reserve"
    /\ LET weights == Eval(weightLines[Len(weightLines) - 1])
       IN  IF ~weights.ok \/ Len(weights.items) = 0
           THEN \* eval or weights[0] raises
                Raise /\ UNCHANGED <<selection, dest, calls, i>>
           ELSE LET maxIndex == weights.items[1]
                IN  IF ~IsNumber(maxIndex)
                    THEN \* maxIndex + 1 raises, after cmds.select
                         /\ Raise
                         /\ selection' = dest.name
                         /\ UNCHANGED <<dest, calls, i>>
                    ELSE /\ pc' = "r_loop"
                         /\ selection' = dest.name
                         /\ dest' = IF maxIndex.t = "int"
                                    THEN [dest EXCEPT !.size = maxIndex.n]
                                    ELSE dest
                         /\ calls' = Append(calls, <<"setAttr.wl", ValStr(maxIndex)>>)
                         /\ i' = 3
                         /\ UNCHANGED <<result, shown, history>>
    /\ UNCHANGED <<todo, args, before, src, env, fsVars, cmdLog, weightLines, objects,
                   normalization, accVars>>

\* Size the weight list from the last record line (lines 320-325).  The size
\* of the binding is recorded for an integer maxIndex; what Maya makes of
\* "setAttr -s" with a float is not in the source.
ReadReserve ==
    /\ pc = "r_reserve"
    /\ LET weights == Eval(weightLines[Len(weightLines) - 1])
       IN  IF ~weights.ok \/ Len(weights.items) = 0
           THEN \* eval or weights[0] raises
                Raise /\ UNCHANGED <<selection, dest, calls, i>>
           ELSE LET maxIndex == weights.items[1]
                IN  IF ~IsNumber(maxIndex)
                    THEN \* maxIndex + 1 raises, after cmds.select
                         /\ Raise
                         /\ selection' = dest.name
                         /\ UNCHANGED <<dest, calls, i>>
                    ELSE /\ pc' = "r_loop"
                         /\ selection' = dest.name
                         /\ dest' = IF maxIndex.t = "int"
                                    THEN [dest EXCEPT !.size = maxIndex.n + 1]
                                    ELSE dest
                         /\ calls' = Append(calls, <<"setAttr.wl", PlusOneStr(maxIndex)>>)
                         /\ i' = 3
                         /\ UNCHANGED <<result, shown, history>>
    /\ UNCHANGED <<todo, args, before, src, env, fsVars, cmdLog, weightLines, objects,
                   normalization, accVars>>

\* The evaluated line with the influence index of a record counted from the
\* end of the influence list.
ReversedIndex(e, count) ==
    IF e.ok /\ e.kind = "list" /\ Len(e.items) >= 3 /\ e.items[3].t = "int"
    THEN [e EXCEPT !.items[3] = IntVal(count - 1 - e.items[3].n)]
    ELSE e

\* ReadRecord reading the influence index of a record against the reversed
\* list when reverseOrder = 1.
ReadRecordReversedIndex ==
    /\ pc = "r_loop"
    /\ i < Len(weightLines) - 1
    /\ LET n == Len(weightLines)
           cur == IF Flag(args.ro, 0) = 1
                  THEN ReversedIndex(Eval(weightLines[i + 1]), Len(dest.infls))
                  ELSE Eval(weightLines[i + 1])
           next == IF i < n - 2 THEN Eval(weightLines[i + 2]) ELSE cur
           wd == IF i < n - 2 THEN writeData ELSE 1
           step == RecordStep(cur, next, [inflStart |-> inflStart, inflEnd |-> inflEnd,
                                          weightString |-> weightString,
                                          setCount |-> setCount])
       IN  IF ~step.ok
           THEN Raise /\ UNCHANGED <<calls, cmdLog, i, accVars>>
           ELSE /\ IF step.differs \/ wd = 1
                   THEN /\ cmdLog' = Append(cmdLog, SetAttrCommand(step.acc, step.compIndex))
                        /\ calls' = Append(calls, <<"setAttr.weights",
                                                    ValStr(step.compIndex)>>)
                        /\ inflStart' = EmptyAcc.inflStart
                        /\ inflEnd' = EmptyAcc.inflEnd
                        /\ writeData' = 0
                        /\ setCount' = 0
                        /\ weightString' = <<>>
                   ELSE /\ inflStart' = step.acc.inflStart
                        /\ inflEnd' = step.acc.inflEnd
                        /\ setCount' = step.acc.setCount
                        /\ weightString' = step.acc.weightString
                        /\ writeData' = wd
                        /\ UNCHANGED <<calls, cmdLog>>
                /\ i' = i + 1
                /\ UNCHANGED <<pc, result, shown, history>>
    /\ UNCHANGED <<todo, args, before, src, env, fsVars, selection, dest, weightLines,
                   objects, normalization>>

\* One pass of the loop over the record lines (lines 334-392).
ReadRecord ==
    /\ pc = "r_loop"
    /\ i < Len(weightLines) - 1
    /\ LET n == Len(weightLines)
           cur == Eval(weightLines[i + 1])
           next == IF i < n - 2 THEN Eval(weightLines[i + 2]) ELSE cur
           wd == IF i < n - 2 THEN writeData ELSE 1
           step == RecordStep(cur, next, [inflStart |-> inflStart, inflEnd |-> inflEnd,
                                          weightString |-> weightString,
                                          setCount |-> setCount])
       IN  IF ~step.ok
           THEN Raise /\ UNCHANGED <<calls, cmdLog, i, accVars>>
           ELSE /\ IF step.differs \/ wd = 1
                   THEN /\ cmdLog' = Append(cmdLog, SetAttrCommand(step.acc, step.compIndex))
                        /\ calls' = Append(calls, <<"setAttr.weights",
                                                    ValStr(step.compIndex)>>)
                        /\ inflStart' = EmptyAcc.inflStart
                        /\ inflEnd' = EmptyAcc.inflEnd
                        /\ writeData' = 0
                        /\ setCount' = 0
                        /\ weightString' = <<>>
                   ELSE /\ inflStart' = step.acc.inflStart
                        /\ inflEnd' = step.acc.inflEnd
                        /\ setCount' = step.acc.setCount
                        /\ weightString' = step.acc.weightString
                        /\ writeData' = wd
                        /\ UNCHANGED <<calls, cmdLog>>
                /\ i' = i + 1
                /\ UNCHANGED <<pc, result, shown, history>>
    /\ UNCHANGED <<todo, args, before, src, env, fsVars, selection, dest, weightLines,
                   objects, normalization>>

\* Re-apply the stored normalization and return (lines 394-399).
ReadRestore ==
    /\ pc = "r_loop"
    /\ i >= Len(weightLines) - 1
    /\ pc' = "finish"
    /\ result' = "1"
    /\ dest' = [dest EXCEPT !.nw = normalization]
    /\ calls' = Append(calls, <<"setAttr.nw", IntStr(normalization)>>)
    /\ UNCHANGED <<todo, args, before, src, env, fsVars, selection, cmdLog, shown, history,
                   readVars, accVars>>

Next ==
    \/ DoIt
    \/ WriteWeights
    \/ ReadOpen
    \/ ReadSelect
    \/ ReadCheckBound
    \/ ReadCreate
    \/ ReadReserve
    \/ ReadRecord
    \/ ReadRestore
    \/ Finish

Spec == Init /\ [][Next]_vars

----------------------------------------------------------------------------
\* Vocabulary of the properties

Mode == Flag(args.m, 0)
ReverseOrder == Flag(args.ro, 0)
Exclusive == Flag(args.ex, 0)

\* writeWeights, respectively readWeights, has returned or raised.
WriteEnded == Mode = 0 /\ result # "none" /\ pc \in {"finish", "idle"}
ReadEnded == Mode = 1 /\ result # "none" /\ pc \in {"finish", "idle"}

\* The record lines of a file: lines 4 .. n-1.
Stream(lines) == SubSeq(lines, 4, Len(lines) - 1)

\* A line that parses into a record [vertexIndex, name, influenceIndex, weight].
IsRecord(line) ==
    LET e == Eval(line)
    IN  /\ e.ok /\ e.kind = "list"
        /\ Len(e.val) = 4
        /\ e.val[1].t = "int" /\ e.val[2].t = "str"
        /\ e.val[3].t = "int" /\ e.val[4].t = "float"

\* The fields of a record line: the tokens between the brackets.
RecVertex(line) == ParseInt(line[2])
RecIndex(line) == ParseInt(line[4])
RecWeight(line) == ParseFloat(line[5])

\* Strictly ascending by (vertexIndex, influenceIndex).
Ascending(st) ==
    /\ \A k \in 1 .. Len(st) : IsRecord(st[k])
    /\ \A k \in 1 .. Len(st) - 1 :
          \/ RecVertex(st[k]) < RecVertex(st[k + 1])
          \/ /\ RecVertex(st[k]) = RecVertex(st[k + 1])
             /\ RecIndex(st[k]) < RecIndex(st[k + 1])

VerticesOf(st) == {RecVertex(st[k]) : k \in 1 .. Len(st)}
IndicesOf(st, v) == {RecIndex(st[k]) : k \in {x \in 1 .. Len(st) : RecVertex(st[x]) = v}}
Lowest(S) == CHOOSE x \in S : \A y \in S : x <= y
Highest(S) == CHOOSE x \in S : \A y \in S : x >= y

\* The weight the stream records for (v, j), 0 where it records none.
Recorded(st, v, j) ==
    IF \E k \in 1 .. Len(st) : RecVertex(st[k]) = v /\ RecIndex(st[k]) = j
    THEN RecWeight(st[CHOOSE k \in 1 .. Len(st) :
                          RecVertex(st[k]) = v /\ RecIndex(st[k]) = j])
    ELSE 0

CmdVertex(c) == ParseInt(c.comp)
CmdStart(c) == ParseInt(c.start)
CmdEnd(c) == IF c.range = <<>> THEN ParseInt(c.start) ELSE ParseInt(c.range[1])

----------------------------------------------------------------------------
\* C1: for a record stream strictly ascending by (vertexIndex,
\* influenceIndex), readWeights emits exactly one weight-set command per
\* distinct vertex, in ascending vertex order; the command covers the
\* influence indices from the lowest to the highest recorded index of the
\* vertex, and holds the recorded weight at every recorded index and 0 at
\* every unrecorded index inside the range.
C1_OneCommandPerVertex ==
    (ReadEnded /\ dest.exists /\ Ascending(Stream(weightLines))) =>
        LET st == Stream(weightLines)
        IN  /\ Len(cmdLog) = Cardinality(VerticesOf(st))
            /\ \A k \in 1 .. Len(cmdLog) - 1 :
                  CmdVertex(cmdLog[k]) < CmdVertex(cmdLog[k + 1])
            /\ \A k \in 1 .. Len(cmdLog) :
                  LET c == cmdLog[k]
                      v == CmdVertex(c)
                  IN  /\ v \in VerticesOf(st)
                      /\ CmdStart(c) = Lowest(IndicesOf(st, v))
                      /\ CmdEnd(c) = Highest(IndicesOf(st, v))
                      /\ Len(c.values) = CmdEnd(c) - CmdStart(c) + 1
                      /\ \A j \in CmdStart(c) .. CmdEnd(c) :
                            ParseNumber(c.values[j - CmdStart(c) + 1]) = Recorded(st, v, j)

\* An import has returned 1 whose file records the indices 0, 1 and 3 for
\* vertex 1 after the records of vertex 0: the second of the two commands runs
\* over [0, 3] with a zero at index 2.
C1_Witness ==
    /\ ReadEnded /\ result = "1"
    /\ Ascending(Stream(weightLines))
    /\ IndicesOf(Stream(weightLines), 1) = {0, 1, 3}
    /\ Len(cmdLog) = 2
    /\ cmdLog[2] = [s |-> "4", comp |-> "1", start |-> "0", range |-> <<"3">>,
                    values |-> <<"0.5", "1.0", "0", "1.0">>]

\* An export with default flags returned 1 and the import of its file with
\* reverseOrder = 0 has ended.
RoundTripDone ==
    /\ pc = "idle"
    /\ Len(history) = 2
    /\ Flag(history[1].args.m, 0) = 0 /\ Flag(history[1].args.ex, 0) = 0
    /\ history[1].result = "1"
    /\ Flag(history[2].args.m, 0) = 1 /\ Flag(history[2].args.ro, 0) = 0
    /\ history[2].result \in {"1", "raised"}

\* C2: round trip: the commands readWeights emits for the file writeWeights
\* produced, replayed onto an all-zero destination, give every (vertex,
\* influence) entry whose weight is > 0 the weight of the exported table.
C2_RoundTrip ==
    RoundTripDone =>
        \A v \in 1 .. Len(src.wl) : \A j \in 1 .. Len(src.infls) :
            src.wl[v][j] > 0 => DestWeight(v - 1, j - 1) = src.wl[v][j]

\* A round trip has ended for a table whose first vertex has no positive
\* weight and whose second vertex has the weights 0.5, 0, 0.5, 1.
C2_Witness ==
    /\ RoundTripDone
    /\ history[2].result = "1"
    /\ src.wl[1] = <<0, 0, 0, 0>>
    /\ src.wl[2] = <<30, 0, 30, 60>>
    /\ DestWeight(1, 2) = 30

\* C3: sparsity: a default export writes exactly one record line for each
\* (vertex, influence) pair whose weight is > 0 and none for a pair whose
\* weight is <= 0; no pair has two record lines.
C3_Sparsity ==
    (WriteEnded /\ Exclusive = 0 /\ result = "1") =>
        LET st == Stream(fileText)
            wl == before.src.wl
        IN  /\ \A k \in 1 .. Len(st) :
                  /\ IsRecord(st[k])
                  /\ RecVertex(st[k]) \in 0 .. Len(wl) - 1
                  /\ RecIndex(st[k]) \in 0 .. Len(before.src.infls) - 1
            /\ \A v \in 1 .. Len(wl) : \A j \in 1 .. Len(wl[v]) :
                  Cardinality({k \in 1 .. Len(st) :
                                  RecVertex(st[k]) = v - 1 /\ RecIndex(st[k]) = j - 1})
                      = (IF wl[v][j] > 0 THEN 1 ELSE 0)

\* A default export has returned 1 for a table with a negative, a zero and
\* two positive weights.
C3_Witness ==
    /\ WriteEnded /\ Exclusive = 0 /\ result = "1"
    /\ before.src.wl[1] = <<-30, 60>>
    /\ before.src.wl[2] = <<0, 30>>
    /\ Len(Stream(fileText)) = 2

\* C4: with reverseOrder = 1 the list handed to the binding creation is the
\* N >= 1 influence names of line 1 in reversed order followed by the target
\* name; with reverseOrder = 0 it is the tokens of line 1 in file order.
C4_ReverseMode ==
    (Mode = 1 /\ dest.exists /\ Len(weightLines[1]) >= 2) =>
        LET toks == weightLines[1]
            N == Len(toks) - 1
        IN  /\ ReverseOrder = 1 =>
                  calls[1] = <<"newSkinCluster">> \o [k \in 1 .. N |-> toks[N + 1 - k]]
                                 \o <<toks[N + 1]>>
            /\ ReverseOrder = 0 => calls[1] = <<"newSkinCluster">> \o toks

\* An import with reverseOrder = 1 of a file whose first line is
\* "J1 J2 J3 Mesh" has created the binding from J3, J2, J1, Mesh.
C4_Witness ==
    /\ Mode = 1 /\ ReverseOrder = 1 /\ dest.exists
    /\ weightLines[1] = <<"J1", "J2", "J3", "Mesh">>
    /\ calls[1] = <<"newSkinCluster", "J3", "J2", "J1", "Mesh">>
    /\ dest.infls = <<"J3", "J2", "J1">> /\ dest.shape = "Mesh"

\* C5: when the history of the target shape holds a skinCluster, readWeights
\* displays the error and returns -1, and has made no mutating collaborator
\* call: no binding creation, rename, normalization change, prune, capacity
\* reservation or weight-set command.
C5_AlreadyBound ==
    (Mode = 1 /\ env.bound) =>
        /\ calls = <<>> /\ cmdLog = <<>> /\ ~dest.exists
        /\ pc \notin {"r_create", "r_reserve", "r_loop"}
        /\ (ReadEnded /\ selection # <<>>) =>
              /\ result = "-1"
              /\ shown # <<>>
              /\ shown[1] = "error: is already connected to a skinCluster."

\* An import into a scene whose Mesh is bound has returned -1 after the
\* selection of the names of line 1.
C5_Witness ==
    /\ Mode = 1 /\ env.bound /\ pc = "finish"
    /\ selection = <<"J1", "J2", "J3", "Mesh">>
    /\ result = "-1"

\* C6: if a record line of the file cannot be parsed into a 4-element
\* record, readWeights aborts and no weight-set command has been applied at
\* the moment of the abort, wherever the line stands in the stream.
C6_NoPartialApplication ==
    (/\ ReadEnded
     /\ Len(weightLines) >= 4
     /\ \E k \in 1 .. Len(Stream(weightLines)) : ~IsRecord(Stream(weightLines)[k]))
        => (result = "raised" /\ cmdLog = <<>>)

\* C7: readWeights rejects, and applies no weight-set command for, a stream
\* of records that is not strictly ascending by (vertexIndex, influenceIndex).
C7_OrderingValidated ==
    (/\ ReadEnded
     /\ dest.exists
     /\ \A k \in 1 .. Len(Stream(weightLines)) : IsRecord(Stream(weightLines)[k])
     /\ ~Ascending(Stream(weightLines)))
        => (result # "1" /\ cmdLog = <<>>)

\* C8: in a run of readWeights that creates the binding, normalization is
\* off before the first weight-set command and while the commands are
\* applied, and once readWeights has ended, on every exit path after the
\* creation, the flag equals the value of the binding parameters of the file.
C8_NormalizationBracket ==
    (Mode = 1 /\ dest.exists) =>
        /\ pc \in {"r_reserve", "r_loop"} => dest.nw = 0
        /\ (calls # <<>> /\ calls[Len(calls)][1] = "setAttr.weights") => dest.nw = 0
        /\ ReadEnded => dest.nw = ParseInt(weightLines[3][2])

\* C9: binding creation is the first mutation of the destination and comes
\* after every check that can fail the import, the parse of the record lines
\* included: a failing run of readWeights leaves no newly created binding.
C9_ImportStaging ==
    /\ (Mode = 1 /\ calls # <<>>) => calls[1][1] = "newSkinCluster"
    /\ (ReadEnded /\ result # "1") => (~dest.exists /\ calls = <<>>)

\* The export failed on reading the attributes or the weights of the
\* skinCluster.
SourceFaultMet ==
    /\ WriteEnded /\ Exclusive = 0
    /\ before.src.sel = "skin" /\ Len(before.src.infls) > 0
    /\ ~env.openFails
    /\ \/ before.src.fault = "attr"
       \/ before.src.fault = "weights" /\ Len(before.src.wl) > 0

\* C10: when reading the attributes or the weights of the skinCluster fails
\* during a default export, writeWeights returns failure and the file is as
\* it was before the call: not created, not truncated, no bytes written.
C10_ExportAbortLeavesFile ==
    SourceFaultMet =>
        /\ result = "-1"
        /\ fileExists = before.fileExists
        /\ fileText = before.fileText

----------------------------------------------------------------------------
\* The lines "<vertexIndex> <weight>" of a file of the exclusive export: all
\* lines but the final empty one.
ExLines(text) == SubSeq(text, 1, Len(text) - 1)

\* C11: exclusive export: writeWeights writes one file per influence j, and
\* the file of influence j holds a line "<vertexIndex> <weight>" for exactly
\* the vertices whose weight for j is > 0, in ascending vertex order, and no
\* line for a vertex whose weight for j is 0.
C11_ExclusiveSparse ==
    (WriteEnded /\ Exclusive = 1 /\ result = "1") =>
        /\ Len(exFiles) = Len(src.infls)
        /\ \A j \in 1 .. Len(exFiles) :
              LET ls == ExLines(exFiles[j][2])
              IN  /\ exFiles[j][1] = src.infls[j]
                  /\ \A k \in 1 .. Len(ls) - 1 : ParseInt(ls[k][1]) < ParseInt(ls[k + 1][1])
                  /\ {ParseInt(ls[k][1]) : k \in 1 .. Len(ls)}
                        = {v - 1 : v \in {x \in 1 .. Len(src.wl) : src.wl[x][j] > 0}}

----------------------------------------------------------------------------
\* The error messages writeWeights and readWeights display.
FileErrors == {"error: A file error has occurred for file",
               "error: Unable to create export directory"}
BoundErrors == {"error: is already connected to a skinCluster."}
SelectionErrors == {"error: Select a skinCluster node to export.",
                    "error: Selected node is not a skinCluster.",
                    "error: No influence objects found for skinCluster.",
                    "error: No connected shape nodes found."}

\* readWeights could not select a name of line 1.
SelectFailed ==
    /\ ReadEnded
    /\ Len(weightLines) >= 2
    /\ \E k \in 1 .. Len(objects) : objects[k] \notin SceneNames(env)

\* C12: every run of writeWeights or readWeights that does not complete
\* successfully has displayed an error message when it returns and returns a
\* value other than 1; a readWeights run whose selection of the names of line
\* 1 fails has displayed an error that is none of the file, format and
\* already-bound errors.
C12_FailureReported ==
    /\ ((WriteEnded \/ ReadEnded) /\ result # "1") =>
          /\ result # "raised"
          /\ shown # <<>>
          /\ shown[Len(shown)] \in FileErrors \cup BoundErrors \cup SelectionErrors
    /\ SelectFailed =>
          /\ shown # <<>>
          /\ shown[Len(shown)] \notin FileErrors \cup BoundErrors

----------------------------------------------------------------------------
\* The errors doIt displays itself.
DispatchErrors ==
    {"error: transferSkinCluster needs file name flag.",
     "error: transferSkinCluster file name is not specified.",
     "error: transferSkinCluster mode needs to be set to either 0 for 'write' or 1 for 'read'."}

InfoMessages ==
    {"info: transferSkinCluster command took seconds", "info: Weights exported to",
     "info: Weights imported from"}

\* The invocation has no file name or a mode outside {0, 1}.
Rejected == args.f = <<>> \/ args.f[1] = "" \/ Mode \notin {0, 1}

\* doIt has returned from the invocation args.
Answered == pc = "idle" /\ history # <<>>

\* Neither writeWeights nor readWeights has touched the files or the scene.
NothingRan ==
    /\ result = "none"
    /\ fileExists = before.fileExists /\ fileText = before.fileText
    /\ src = before.src
    /\ exFiles = <<>> /\ ~exDir
    /\ selection = <<>> /\ calls = <<>> /\ cmdLog = <<>> /\ weightLines = <<>>

\* C13: doIt runs at most one operation per invocation: with -h it returns
\* the help text and runs neither export nor import; without -f, with an empty
\* file name or with a mode outside {0, 1} it displays an error and runs
\* neither; otherwise it runs writeWeights when the mode is 0 (the default)
\* and readWeights when it is 1, and displays the elapsed-time and success
\* messages if and only if the operation returned 1.
C13_Dispatch ==
    /\ pc = "write" => (~args.h /\ ~Rejected /\ Mode = 0)
    /\ pc \in {"read", "r_select", "r_bound", "r_create", "r_reserve", "r_loop"}
          => (~args.h /\ ~Rejected /\ Mode = 1)
    /\ pc = "finish" => (~args.h /\ ~Rejected /\ result # "none")
    /\ Answered =>
          /\ Len(history) + Len(todo) <= 2
          /\ history[Len(history)].args = args
          /\ args.h => (NothingRan /\ shown = <<"result: helpText">>)
          /\ (~args.h /\ Rejected) =>
                (NothingRan /\ Len(shown) = 1 /\ shown[1] \in DispatchErrors)
          /\ (~args.h /\ ~Rejected) =>
                /\ result # "none"
                /\ \A k \in 1 .. Len(shown) : shown[k] \notin DispatchErrors
                /\ (Mode = 0 /\ result # "1") => weightLines = <<>>
                /\ (Mode = 1) => src = before.src /\ fileText = before.fileText
                /\ IF result = "1"
                   THEN /\ Len(shown) >= 2
                        /\ shown[Len(shown) - 1] = "info: transferSkinCluster command took seconds"
                        /\ shown[Len(shown)] = (IF Mode = 0 THEN "info: Weights exported to"
                                                ELSE "info: Weights imported from")
                   ELSE \A k \in 1 .. Len(shown) : shown[k] \notin InfoMessages

\* doIt has answered an invocation with a file name and the mode 2 by the
\* error on the mode, and nothing ran.
C13_Witness ==
    /\ Answered /\ ~args.h
    /\ args.f = <<FileName>> /\ args.m = <<2>>
    /\ shown = <<"error: transferSkinCluster mode needs to be set to either 0 for 'write' or 1 for 'read'.">>
    /\ NothingRan

----------------------------------------------------------------------------
\* A default export has returned 1.
ExportDone == WriteEnded /\ Exclusive = 0 /\ result = "1"

\* C14: every file a successful default export writes consists of line 1 =
\* the influence names in influence-index order followed by the shape name,
\* line 2 = the skinCluster name, line 3 = the binding parameters, then the
\* record lines strictly ascending by vertex index and, within a vertex, by
\* influence index, then one empty final line; the influenceIndex of every
\* record is < the number of influences and its influenceName is the name at
\* that index of line 1.
C14_FileLayout ==
    ExportDone =>
        LET s == before.src
            st == Stream(fileText)
        IN  /\ fileExists
            /\ Len(fileText) >= 4
            /\ fileText[1] = s.infls \o <<s.shape>>
            /\ fileText[2] = <<s.name>>
            /\ fileText[3] = <<"-nw", IntStr(s.nw), "-mi", IntStr(s.mi), "-dr", FloatStr(s.dr)>>
            /\ fileText[Len(fileText)] = EmptyLine
            /\ Ascending(st)
            /\ \A k \in 1 .. Len(st) :
                  /\ RecIndex(st[k]) >= 0
                  /\ RecIndex(st[k]) < Len(fileText[1]) - 1
                  /\ Eval(st[k]).val[2].s = fileText[1][RecIndex(st[k]) + 1]

\* A default export of four influences has returned 1 whose file holds three
\* records of vertex 0 (indices 0, 1, 3) and one of vertex 1 (index 2).
C14_Witness ==
    /\ ExportDone
    /\ before.src.wl[1] = <<30, 60, 0, 60>>
    /\ before.src.wl[2] = <<0, 0, 30, 0>>
    /\ fileText[1] = <<"J1", "J2", "J3", "J4", "Mesh">>
    /\ Len(Stream(fileText)) = 4
    /\ RecVertex(Stream(fileText)[4]) = 1 /\ RecIndex(Stream(fileText)[4]) = 2

----------------------------------------------------------------------------
\* The weight-set commands the lines of index k .. upto - 1 (counted from 0)
\* of a file give rise to, from the accumulator acc on: a function of the
\* lines alone.
RECURSIVE CommandsOf(_, _, _, _)
CommandsOf(lines, k, upto, acc) ==
    IF k >= upto
    THEN <<>>
    ELSE LET cur == Eval(lines[k + 1])
             next == IF k < Len(lines) - 2 THEN Eval(lines[k + 2]) ELSE cur
             step == RecordStep(cur, next, acc)
         IN  IF ~step.ok
             THEN <<>>
             ELSE IF step.differs \/ k >= Len(lines) - 2
             THEN <<SetAttrCommand(step.acc, step.compIndex)>>
                      \o CommandsOf(lines, k + 1, upto, EmptyAcc)
             ELSE CommandsOf(lines, k + 1, upto, step.acc)

\* The names of a list, whatever their order.
NamesOf(s) == {s[k] : k \in 1 .. Len(s)}

\* C15: the sequence of weight-set commands readWeights emits (vertex index,
\* influence index range, count and weights of each) is a function of the
\* lines of the file alone, the same with reverseOrder = 0 and reverseOrder =
\* 1; the flag changes only the order of the influence list given to the
\* binding creation, and the index of a command is the influenceIndex field
\* of the record, never looked up from its influenceName.
C15_ReverseLeavesCommands ==
    (Mode = 1 /\ dest.exists) =>
        /\ cmdLog = CommandsOf(weightLines, 3, i, EmptyAcc)
        /\ (ReadEnded /\ result = "1") =>
              cmdLog = CommandsOf(weightLines, 3, Len(weightLines) - 1, EmptyAcc)
        /\ NamesOf(Tail(calls[1])) = NamesOf(weightLines[1])
        /\ dest.shape = weightLines[1][Len(weightLines[1])]
        /\ \A k \in 2 .. Len(calls) :
              calls[k][1] \in {"rename", "setAttr.nw", "skinPercent.pruneWeights",
                               "setAttr.wl", "setAttr.weights"}
        /\ (Len(calls) >= 2) => calls[2] = <<"rename">> \o weightLines[2]

\* An import with reverseOrder = 1 has returned 1: the binding lists J3 at
\* index 0, and the command of vertex 1, whose only record names J1 with the
\* index 0, sets the index 0.
C15_Witness ==
    /\ ReadEnded /\ ReverseOrder = 1 /\ result = "1"
    /\ dest.infls = <<"J3", "J2", "J1">>
    /\ Stream(weightLines) = <<HandRecord(0, 0), HandRecord(0, 2), HandRecord(1, 0)>>
    /\ Len(cmdLog) = 2
    /\ cmdLog[1] = [s |-> "3", comp |-> "0", start |-> "0", range |-> <<"2">>,
                    values |-> <<"0.5", "0", "0.5">>]
    /\ cmdLog[2] = [s |-> "1", comp |-> "1", start |-> "0", range |-> <<>>,
                    values |-> <<"0.5">>]

----------------------------------------------------------------------------
\* Records ascending by vertex index.
VertexAscending(st) ==
    /\ \A k \in 1 .. Len(st) : IsRecord(st[k])
    /\ \A k \in 1 .. Len(st) - 1 : RecVertex(st[k]) <= RecVertex(st[k + 1])

\* The positions in the call log of the calls named op.
CallsOf(op) == {k \in 1 .. Len(calls) : calls[k][1] = op}

\* C16: for a file with at least one record whose records are ascending by
\* vertex index, readWeights reserves the capacity of the weight list exactly
\* once, before the first weight-set command, with the size (maximum vertex
\* index of the records) + 1, and every vertex index a weight-set command
\* addresses is < the reserved size.
C16_CapacityHint ==
    (/\ Mode = 1 /\ dest.exists
     /\ Len(weightLines) >= 5
     /\ VertexAscending(Stream(weightLines))) =>
        LET size == Highest(VerticesOf(Stream(weightLines))) + 1
        IN  /\ pc \in {"r_create", "r_reserve"} =>
                  (CallsOf("setAttr.wl") = {} /\ CallsOf("setAttr.weights") = {})
            /\ (pc = "r_loop" \/ ReadEnded) =>
                  /\ Cardinality(CallsOf("setAttr.wl")) = 1
                  /\ \A r \in CallsOf("setAttr.wl") :
                        /\ calls[r] = <<"setAttr.wl", IntStr(size)>>
                        /\ \A w \in CallsOf("setAttr.weights") : r < w
                  /\ dest.size = size
                  /\ \A k \in 1 .. Len(cmdLog) : CmdVertex(cmdLog[k]) < dest.size
            /\ ReadEnded => result = "1"

\* An import has returned 1 for the records (0, J3), (0, J1), (1, J1): the
\* size 2 was reserved and the commands address the vertices 0 and 1.
C16_Witness ==
    /\ ReadEnded /\ result = "1"
    /\ Stream(weightLines) = <<HandRecord(0, 2), HandRecord(0, 0), HandRecord(1, 0)>>
    /\ dest.size = 2
    /\ calls[5] = <<"setAttr.wl", "2">>
    /\ {CmdVertex(cmdLog[k]) : k \in 1 .. Len(cmdLog)} = {0, 1}

----------------------------------------------------------------------------
\* C17: in the default and in the exclusive mode, a run of writeWeights
\* leaves the weights and the attributes of the exported skinCluster as they
\* were; its only effects are the files it writes and the selection.
C17_ExportLeavesSource ==
    WriteEnded =>
        /\ src.wl = before.src.wl
        /\ src.nw = before.src.nw /\ src.mi = before.src.mi /\ src.dr = before.src.dr
        /\ src.name = before.src.name
        /\ src.infls = before.src.infls /\ src.shape = before.src.shape

----------------------------------------------------------------------------
\* The accumulator is as at the start of readWeights.
AccumulatorReset ==
    /\ inflStart = IntVal(-1) /\ inflEnd = IntVal(-1)
    /\ setCount = 0 /\ weightString = <<>> /\ writeData = 0

\* The count, the range and the weights of a command agree, and the form
\* with a single index is used exactly when the range is one index.
CommandConsistent(c) ==
    /\ IsIntText(c.s) /\ IsIntText(c.start)
    /\ ParseInt(c.s) = Len(c.values)
    /\ ParseInt(c.s) = CmdEnd(c) - CmdStart(c) + 1
    /\ c.range # <<>> => CmdEnd(c) > CmdStart(c)
    /\ c.range = <<>> => ParseInt(c.s) = 1

\* The accumulator and the record being read agree while the records of a
\* vertex are collected.
AccumulatorConsistent ==
    \/ AccumulatorReset
    \/ /\ setCount = Len(weightString)
       /\ inflStart.t = "int" /\ inflEnd.t = "int"
       /\ setCount = inflEnd.n - inflStart.n + 1
       /\ inflStart.n >= 0
       /\ writeData = 0

\* The record read last was the last one of its vertex: the loop has just
\* executed the command of that vertex.
JustFlushed ==
    /\ pc = "r_loop" /\ i > 3
    /\ \/ i >= Len(weightLines) - 1
       \/ RecVertex(weightLines[i]) # RecVertex(weightLines[i + 1])

\* C18: for a record stream strictly ascending by (vertexIndex,
\* influenceIndex), at every flush the element count of the command equals
\* the number of its weights and inflEnd - inflStart + 1, the single-index
\* form is used exactly when inflStart = inflEnd, and after every flush the
\* accumulator is back to inflStart = inflEnd = -1, setCount = 0, an empty
\* weight string and writeData = 0, so that the command of a vertex holds the
\* weights of that vertex only.
C18_AccumulatorConsistent ==
    (Mode = 1 /\ dest.exists /\ Ascending(Stream(weightLines))) =>
        /\ \A k \in 1 .. Len(cmdLog) :
              /\ CommandConsistent(cmdLog[k])
              /\ CmdEnd(cmdLog[k]) - CmdStart(cmdLog[k])
                    = Highest(IndicesOf(Stream(weightLines), CmdVertex(cmdLog[k])))
                        - Lowest(IndicesOf(Stream(weightLines), CmdVertex(cmdLog[k])))
        /\ pc = "r_loop" => AccumulatorConsistent
        /\ JustFlushed =>
              /\ AccumulatorReset
              /\ cmdLog # <<>>
              /\ CmdVertex(cmdLog[Len(cmdLog)]) = RecVertex(weightLines[i])
        /\ ReadEnded => AccumulatorReset

\* In the import of an ascending stream the command of vertex 0, which runs
\* over the indices 0 to 2 with a zero filled in, has been flushed and the
\* records of vertex 1 are still to be read.
C18_Witness ==
    /\ Mode = 1 /\ pc = "r_loop" /\ i = 5
    /\ Ascending(Stream(weightLines))
    /\ Len(weightLines) >= 7
    /\ cmdLog = <<[s |-> "3", comp |-> "0", start |-> "0", range |-> <<"2">>,
                   values |-> <<"0.5", "0", "0.5">>]>>
    /\ JustFlushed /\ AccumulatorReset

====
